---- MODULE Spec2Model ----
(***************************************************************************)
(* Attendance ledger client of the orientation QR scanner (src/app.py):    *)
(* process_student_scan against the shared spreadsheet "orientation_passes"*)
(* Each kiosk runs process_student_scan as a sequence of steps separated   *)
(* by the store calls (get_all_records, update_cell, update_cell); any     *)
(* store call may raise, which the handler's except clause turns into a    *)
(* "Database Error" report.                                                *)
(***************************************************************************)
EXTENDS Integers, Sequences, FiniteSets, TLC

VARIABLES sheet, clock, pc, qr, i, row, now, log, outcome

vars == <<sheet, clock, pc, qr, i, row, now, log, outcome>>

(* ------------------------------ bounds --------------------------------- *)

\* Number of data rows of the sheet (below the header row).
MaxRows == 3

\* Last second the wall clock reaches.
MaxClock == 1

\* The kiosks (browser sessions) that share the sheet.
Kiosks == {"k1", "k2"}

(* --------------------------- values and cells --------------------------- *)

\* get_all_records hands back a cell either as a Python str or as an int.
PyStr(s) == [str |-> s]

PyInt(n) == [int |-> n]

\* str(v) of app.py line 286: the decimal text of an int, a str unchanged.
Str(v) == IF "int" \in DOMAIN v THEN ToString(v.int) ELSE v.str

\* The student provisioned in data row k: ID, Name, Branch (columns 1..3).
\* Ravi's ID is kept as a number and Asha's as text with the same digits;
\* every further row repeats Jane's ID.
Roster(k) ==
    CASE k = 1 -> [ID |-> PyStr("A1"), Name |-> "Jane", Branch |-> "CS"]
      [] k = 2 -> [ID |-> PyInt(7),    Name |-> "Ravi", Branch |-> "ME"]
      [] k = 3 -> [ID |-> PyStr("7"),  Name |-> "Asha", Branch |-> "EE"]
      [] OTHER -> [ID |-> PyStr("A1"), Name |-> "Lena", Branch |-> "IT"]

\* The identifiers a kiosk may scan or type (always a str).
Identifiers == {"A1", "7", "B9"}

\* A freshly provisioned record: the four attendance cells are blank.
NewRecord(s) ==
    [ID |-> s.ID, Name |-> s.Name, Branch |-> s.Branch,
     EntryStatus |-> "", EntryTime |-> "", ExitStatus |-> "", ExitTime |-> ""]

\* Column numbers of the sheet, as update_cell addresses them.
ColumnName(c) ==
    CASE c = 4 -> "EntryStatus"
      [] c = 5 -> "EntryTime"
      [] c = 6 -> "ExitStatus"
      [] c = 7 -> "ExitTime"

\* datetime.now().strftime("%Y-%m-%d %H:%M:%S") for second t of the minute.
Strftime(t) ==
    "2026-11-02 10:00:" \o (IF t < 10 THEN "0" \o ToString(t) ELSE ToString(t))

(* ------------------------- pure steps of the scan ----------------------- *)

\* Wrong loop: the row left in the loop variables is used when nothing matched.
FirstMatchOrLast(records, qr_data) ==
    LET hits == {k \in 1..Len(records) : Str(records[k].ID) = Str(PyStr(qr_data))}
    IN  IF hits = {} THEN Len(records) + 1
        ELSE (CHOOSE k \in hits : \A m \in hits : k <= m) + 1

\* Wrong loop: no break, so the last matching row is the one acted on.
LastMatch(records, qr_data) ==
    LET hits == {k \in 1..Len(records) : Str(records[k].ID) = Str(PyStr(qr_data))}
    IN  IF hits = {} THEN 0
        ELSE (CHOOSE k \in hits : \A m \in hits : k >= m) + 1

\* for i, row in enumerate(records, start=2): the sheet row number of the
\* first record whose str(ID) equals str(qr_data); 0 when found stays False.
RECURSIVE ScanFrom(_, _, _)
ScanFrom(records, qr_data, k) ==
    IF k > Len(records) THEN 0
    ELSE IF Str(records[k].ID) = Str(PyStr(qr_data)) THEN k + 1
    ELSE ScanFrom(records, qr_data, k + 1)

FirstMatch(records, qr_data) == ScanFrom(records, qr_data, 1)

\* Python truthiness of a status cell: `not s or s == ""`.
IsBlank(s) == s = ""

\* Wrong branch: the final else is lost, a completed record is marked again.
TransitionNoElse(r) ==
    IF IsBlank(r.EntryStatus) THEN "entry" ELSE "exit"

\* Wrong branch order: the exit test is made before the entry test.
TransitionExitFirst(r) ==
    IF IsBlank(r.ExitStatus) THEN "exit"
    ELSE IF IsBlank(r.EntryStatus) THEN "entry"
    ELSE "none"

\* The if / elif / else of lines 295..312 on the snapshot row.
Transition(r) ==
    IF IsBlank(r.EntryStatus) THEN "entry"
    ELSE IF IsBlank(r.ExitStatus) THEN "exit"
    ELSE "none"

\* Wrong column: the status always goes to the EntryStatus column.
StatusColAlwaysEntry(t) == 4

\* Column and value of the first update_cell of a transition.
StatusCol(t) == IF t = "entry" THEN 4 ELSE 6

StatusValue(t) == IF t = "entry" THEN "Entered" ELSE "Exited"

\* Wrong column: the timestamp always goes to the ExitTime column.
TimeColAlwaysExit(t) == 7

\* Column of the second update_cell of a transition.
TimeCol(t) == IF t = "entry" THEN 5 ELSE 7

\* Wrong write: a cell that already holds a value is kept.
UpdateCellIfEmpty(sh, r, c, v) ==
    IF sh[r - 1][ColumnName(c)] # "" THEN sh
    ELSE [sh EXCEPT ![r - 1] = [@ EXCEPT ![ColumnName(c)] = v]]

\* sheet.update_cell(r, c, v): row 1 is the header, record k is row k + 1.
UpdateCell(sh, r, c, v) ==
    [sh EXCEPT ![r - 1] = [@ EXCEPT ![ColumnName(c)] = v]]

(* ------------------------------ call state ------------------------------ *)

NoRow == NewRecord([ID |-> PyStr(""), Name |-> "", Branch |-> ""])

Outcome(kind, name, branch, entryTime, exitTime) ==
    [kind |-> kind, name |-> name, branch |-> branch,
     entryTime |-> entryTime, exitTime |-> exitTime]

NoOutcome == Outcome("None", "", "", "", "")

StoreError == Outcome("StoreError", "", "", "", "")

ReadCall(ok) == [op |-> "get_all_records", r |-> 0, c |-> 0, ok |-> ok]

WriteCall(r, c, ok) == [op |-> "update_cell", r |-> r, c |-> c, ok |-> ok]

Init ==
    /\ sheet = [k \in 1..MaxRows |-> NewRecord(Roster(k))]
    /\ clock = 0
    /\ pc = [p \in Kiosks |-> "idle"]
    /\ qr = [p \in Kiosks |-> ""]
    /\ i = [p \in Kiosks |-> 0]
    /\ row = [p \in Kiosks |-> NoRow]
    /\ now = [p \in Kiosks |-> ""]
    /\ log = [p \in Kiosks |-> <<>>]
    /\ outcome = [p \in Kiosks |-> NoOutcome]

(* ------------------------------- actions -------------------------------- *)

\* The wall clock advances by a second.
Tick ==
    /\ clock < MaxClock
    /\ clock' = clock + 1
    /\ UNCHANGED <<sheet, pc, qr, i, row, now, log, outcome>>

\* Lines 282..286 and 316..318: the call starts, reads every record and
\* scans for the first match; with no match it reports NotFound and ends.
GetAllRecords(p, qr_data) ==
    /\ pc[p] = "idle"
    /\ qr' = [qr EXCEPT ![p] = qr_data]
    /\ log' = [log EXCEPT ![p] = <<ReadCall(TRUE)>>]
    /\ LET m == FirstMatch(sheet, qr_data)
       IN  IF m = 0
           THEN /\ pc' = [pc EXCEPT ![p] = "done"]
                /\ outcome' = [outcome EXCEPT ![p] = Outcome("NotFound", "", "", "", "")]
                /\ UNCHANGED <<i, row>>
           ELSE /\ pc' = [pc EXCEPT ![p] = "matched"]
                /\ i' = [i EXCEPT ![p] = m]
                /\ row' = [row EXCEPT ![p] = sheet[m - 1]]
                /\ UNCHANGED outcome
    /\ UNCHANGED <<sheet, clock, now>>

\* Line 282 raises: the except clause of lines 320..322 reports the error.
GetAllRecordsFails(p, qr_data) ==
    /\ pc[p] = "idle"
    /\ qr' = [qr EXCEPT ![p] = qr_data]
    /\ log' = [log EXCEPT ![p] = <<ReadCall(FALSE)>>]
    /\ pc' = [pc EXCEPT ![p] = "done"]
    /\ outcome' = [outcome EXCEPT ![p] = StoreError]
    /\ UNCHANGED <<sheet, clock, i, row, now>>

\* Lines 288..295, 302 and 308..312: the timestamp is taken and the branch
\* chosen from the snapshot row; a completed record is only reported.
TakeTimestamp(p) ==
    /\ pc[p] = "matched"
    /\ now' = [now EXCEPT ![p] = Strftime(clock)]
    /\ IF Transition(row[p]) = "none"
       THEN /\ pc' = [pc EXCEPT ![p] = "done"]
            /\ outcome' = [outcome EXCEPT ![p] =
                    Outcome("AlreadyProcessed", row[p].Name, row[p].Branch,
                            row[p].EntryTime, row[p].ExitTime)]
       ELSE /\ pc' = [pc EXCEPT ![p] = "w_status"]
            /\ UNCHANGED outcome
    /\ UNCHANGED <<sheet, clock, qr, i, row, log>>

\* Lines 296 / 303: the status cell of the matched row is written.
UpdateStatus(p) ==
    /\ pc[p] = "w_status"
    /\ LET t == Transition(row[p])
       IN  /\ sheet' = UpdateCell(sheet, i[p], StatusCol(t), StatusValue(t))
           /\ log' = [log EXCEPT ![p] = Append(@, WriteCall(i[p], StatusCol(t), TRUE))]
    /\ pc' = [pc EXCEPT ![p] = "w_time"]
    /\ UNCHANGED <<clock, qr, i, row, now, outcome>>

\* Lines 296 / 303 raise: nothing is written, the error is reported.
UpdateStatusFails(p) ==
    /\ pc[p] = "w_status"
    /\ log' = [log EXCEPT ![p] =
            Append(@, WriteCall(i[p], StatusCol(Transition(row[p])), FALSE))]
    /\ pc' = [pc EXCEPT ![p] = "done"]
    /\ outcome' = [outcome EXCEPT ![p] = StoreError]
    /\ UNCHANGED <<sheet, clock, qr, i, row, now>>

\* Lines 297..299 / 304..305: the time cell is written and the mark reported.
UpdateTime(p) ==
    /\ pc[p] = "w_time"
    /\ LET t == Transition(row[p])
       IN  /\ sheet' = UpdateCell(sheet, i[p], TimeCol(t), now[p])
           /\ log' = [log EXCEPT ![p] = Append(@, WriteCall(i[p], TimeCol(t), TRUE))]
           /\ outcome' = [outcome EXCEPT ![p] =
                   Outcome(IF t = "entry" THEN "EntryMarked" ELSE "ExitMarked",
                           row[p].Name, row[p].Branch, "", "")]
    /\ pc' = [pc EXCEPT ![p] = "done"]
    /\ UNCHANGED <<clock, qr, i, row, now>>

\* Lines 297 / 304 raise: the status cell stays written, the time cell not.
UpdateTimeFails(p) ==
    /\ pc[p] = "w_time"
    /\ log' = [log EXCEPT ![p] =
            Append(@, WriteCall(i[p], TimeCol(Transition(row[p])), FALSE))]
    /\ pc' = [pc EXCEPT ![p] = "done"]
    /\ outcome' = [outcome EXCEPT ![p] = StoreError]
    /\ UNCHANGED <<sheet, clock, qr, i, row, now>>

\* process_student_scan returns: its locals are gone.
Return(p) ==
    /\ pc[p] = "done"
    /\ pc' = [pc EXCEPT ![p] = "idle"]
    /\ qr' = [qr EXCEPT ![p] = ""]
    /\ i' = [i EXCEPT ![p] = 0]
    /\ row' = [row EXCEPT ![p] = NoRow]
    /\ now' = [now EXCEPT ![p] = ""]
    /\ log' = [log EXCEPT ![p] = <<>>]
    /\ outcome' = [outcome EXCEPT ![p] = NoOutcome]
    /\ UNCHANGED <<sheet, clock>>

\* No call is in progress on any kiosk.
NoCallInProgress == \A p \in Kiosks : pc[p] \in {"idle", "done"}

\* Every kiosk is outside process_student_scan.
AllIdle == \A p \in Kiosks : pc[p] = "idle"

\* Kiosks scanning concurrently against the shared sheet.
Next ==
    \/ Tick
    \/ \E p \in Kiosks : \E qr_data \in Identifiers : GetAllRecords(p, qr_data)
    \/ \E p \in Kiosks : \E qr_data \in Identifiers : GetAllRecordsFails(p, qr_data)
    \/ \E p \in Kiosks : TakeTimestamp(p)
    \/ \E p \in Kiosks : UpdateStatus(p)
    \/ \E p \in Kiosks : UpdateStatusFails(p)
    \/ \E p \in Kiosks : UpdateTime(p)
    \/ \E p \in Kiosks : UpdateTimeFails(p)
    \/ \E p \in Kiosks : Return(p)

Spec == Init /\ [][Next]_vars

\* One scan at a time: a call starts only when every kiosk is idle.
SeqNext ==
    \/ Tick
    \/ \E p \in Kiosks : \E qr_data \in Identifiers :
          AllIdle /\ GetAllRecords(p, qr_data)
    \/ \E p \in Kiosks : \E qr_data \in Identifiers :
          AllIdle /\ GetAllRecordsFails(p, qr_data)
    \/ \E p \in Kiosks : TakeTimestamp(p)
    \/ \E p \in Kiosks : UpdateStatus(p)
    \/ \E p \in Kiosks : UpdateStatusFails(p)
    \/ \E p \in Kiosks : UpdateTime(p)
    \/ \E p \in Kiosks : UpdateTimeFails(p)
    \/ \E p \in Kiosks : Return(p)

SeqSpec == Init /\ [][SeqNext]_vars

(* ------------------------------ front end ------------------------------ *)

\* Text is a sequence of one-character strings; this is its Python str.
RECURSIVE Join(_)
Join(text) == IF text = <<>> THEN "" ELSE Head(text) \o Join(Tail(text))

\* The characters str.strip() removes.
Whitespace == {" "}

RECURSIVE LStrip(_)
LStrip(text) ==
    IF text # <<>> /\ Head(text) \in Whitespace THEN LStrip(Tail(text)) ELSE text

RECURSIVE RStrip(_)
RStrip(text) ==
    IF text # <<>> /\ text[Len(text)] \in Whitespace
    THEN RStrip(SubSeq(text, 1, Len(text) - 1))
    ELSE text

\* manual_id.strip() of lines 510..511.
Strip(text) == RStrip(LStrip(text))

\* What a user may type, or a QR code may carry.
Texts == { <<>>, <<" ">>, <<"A", "1">>, <<" ", "A", "1">>, <<"7">> }

\* A captured, uploaded or fallback-camera image: the payload of the QR
\* code in it, or no code at all.
NoCode == [code |-> FALSE, data |-> <<>>]

Images == {NoCode} \cup { [code |-> TRUE, data |-> t] : t \in Texts }

\* The three places main() decodes an image.
Sources == {"captured", "uploaded", "fallback"}

PyNone == [none |-> TRUE]

\* Python truthiness of a str or None: `if data:` / `if qr_data:`.
Truthy(v) == "str" \in DOMAIN v /\ v.str # ""

\* detect_qr_with_opencv: the decoded data if it is truthy, else None.
detect_qr_with_opencv(image) ==
    LET data == IF image.code THEN PyStr(Join(image.data)) ELSE PyStr("")
    IN  IF Truthy(data) THEN data ELSE PyNone

\* main() shows a warning or an error and makes no call.
Rejected(p) ==
    /\ pc' = [pc EXCEPT ![p] = "rejected"]
    /\ UNCHANGED <<sheet, clock, qr, i, row, now, log, outcome>>

\* Lines 509..513: the typed ID is processed if it is non-empty after strip().
ManualEntry(p, manual_id) ==
    /\ pc[p] = "idle"
    /\ IF Strip(manual_id) # <<>>
       THEN \/ GetAllRecords(p, Join(Strip(manual_id)))
            \/ GetAllRecordsFails(p, Join(Strip(manual_id)))
       ELSE Rejected(p)

\* Lines 429..436, 530..536 and 547..553: the decoded payload is processed
\* as it is if it is truthy.
ScanImage(p, source, image) ==
    /\ pc[p] = "idle"
    /\ LET qr_data == detect_qr_with_opencv(image)
       IN  IF Truthy(qr_data)
           THEN \/ GetAllRecords(p, qr_data.str)
                \/ GetAllRecordsFails(p, qr_data.str)
           ELSE Rejected(p)

\* The page is run again after a warning.
Rerun(p) ==
    /\ pc[p] = "rejected"
    /\ pc' = [pc EXCEPT ![p] = "idle"]
    /\ UNCHANGED <<sheet, clock, qr, i, row, now, log, outcome>>

\* The kiosks driven through main(): every scan comes from the text box or
\* from a decoded image.
FrontNext ==
    \/ Tick
    \/ \E p \in Kiosks : \E manual_id \in Texts : ManualEntry(p, manual_id)
    \/ \E p \in Kiosks : \E source \in Sources : \E image \in Images :
          ScanImage(p, source, image)
    \/ \E p \in Kiosks : Rerun(p)
    \/ \E p \in Kiosks : TakeTimestamp(p)
    \/ \E p \in Kiosks : UpdateStatus(p)
    \/ \E p \in Kiosks : UpdateStatusFails(p)
    \/ \E p \in Kiosks : UpdateTime(p)
    \/ \E p \in Kiosks : UpdateTimeFails(p)
    \/ \E p \in Kiosks : Return(p)

FrontSpec == Init /\ [][FrontNext]_vars

(* ------------------------- properties of one call ---------------------- *)

\* Every store call the kiosk's current call has issued succeeded.
AllCallsOk(p) == \A n \in 1..Len(log[p]) : log[p][n].ok

\* The update_cell calls the kiosk's current call has issued, in order.
Writes(p) == SelectSeq(log[p], LAMBDA e : e.op = "update_cell")

\* Record k is the first record in store order whose ID reads as id.
IsFirstWithId(k, id) ==
    /\ Str(sheet[k].ID) = id
    /\ \A m \in 1..(k - 1) : Str(sheet[m].ID) # id

\* Kiosk p has finished, without a store failure, a scan of record k, which
\* it read in the state given by the two status tests.
FinishedScanOf(p, k, entryBlank, exitBlank) ==
    /\ pc[p] = "done"
    /\ AllCallsOk(p)
    /\ IsFirstWithId(k, qr[p])
    /\ (row[p].EntryStatus = "") = entryBlank
    /\ (row[p].ExitStatus = "") = exitBlank

\* C1: with one scan at a time, a successful scan of an Unprocessed record
\* leaves it with EntryStatus = "Entered" and EntryTime = the timestamp of
\* the call, reports EntryMarked with its Name and Branch, and leaves its
\* ExitStatus and ExitTime as they were read.
C1_EntryMarked ==
    \A p \in Kiosks : \A k \in 1..Len(sheet) :
        (FinishedScanOf(p, k, TRUE, TRUE) \/ FinishedScanOf(p, k, TRUE, FALSE)) =>
            /\ sheet[k].EntryStatus = "Entered"
            /\ now[p] # ""
            /\ sheet[k].EntryTime = now[p]
            /\ outcome[p] = Outcome("EntryMarked", sheet[k].Name, sheet[k].Branch, "", "")
            /\ sheet[k].ExitStatus = row[p].ExitStatus
            /\ sheet[k].ExitTime = row[p].ExitTime

C1_Witness ==
    \E p \in Kiosks : \E k \in 1..Len(sheet) :
        /\ FinishedScanOf(p, k, TRUE, TRUE)
        /\ outcome[p].kind = "EntryMarked"
        /\ sheet[k].EntryTime = Strftime(1)

\* C2: with one scan at a time, a successful scan of an Entered record
\* leaves it with ExitStatus = "Exited" and ExitTime = the timestamp of the
\* call, reports ExitMarked with its Name and Branch, and leaves its
\* EntryStatus and EntryTime as they were read.
C2_ExitMarked ==
    \A p \in Kiosks : \A k \in 1..Len(sheet) :
        (FinishedScanOf(p, k, FALSE, TRUE) /\ row[p].EntryStatus = "Entered") =>
            /\ sheet[k].ExitStatus = "Exited"
            /\ now[p] # ""
            /\ sheet[k].ExitTime = now[p]
            /\ outcome[p] = Outcome("ExitMarked", sheet[k].Name, sheet[k].Branch, "", "")
            /\ sheet[k].EntryStatus = row[p].EntryStatus
            /\ sheet[k].EntryTime = row[p].EntryTime

C2_Witness ==
    \E p \in Kiosks : \E k \in 1..Len(sheet) :
        /\ FinishedScanOf(p, k, FALSE, TRUE)
        /\ outcome[p].kind = "ExitMarked"
        /\ sheet[k].EntryTime = Strftime(0)
        /\ sheet[k].ExitTime = Strftime(1)

\* C3: with one scan at a time, a scan of a Completed record issues no
\* update_cell, leaves the record as it was read, and reports
\* AlreadyProcessed with the EntryTime and ExitTime recorded for it.
C3_AlreadyProcessed ==
    \A p \in Kiosks : \A k \in 1..Len(sheet) :
        (/\ FinishedScanOf(p, k, FALSE, FALSE)
         /\ row[p].EntryStatus = "Entered"
         /\ row[p].ExitStatus = "Exited") =>
            /\ Writes(p) = <<>>
            /\ sheet[k] = row[p]
            /\ outcome[p] = Outcome("AlreadyProcessed", sheet[k].Name, sheet[k].Branch,
                                    sheet[k].EntryTime, sheet[k].ExitTime)

C3_Witness ==
    \E p \in Kiosks : \E k \in 1..Len(sheet) :
        /\ FinishedScanOf(p, k, FALSE, FALSE)
        /\ outcome[p].kind = "AlreadyProcessed"
        /\ outcome[p].entryTime = Strftime(0)
        /\ outcome[p].exitTime = Strftime(0)
        /\ now[p] = Strftime(1)

\* No record of the store has an ID that reads as id.
NoRecordWithId(id) == \A k \in 1..Len(sheet) : Str(sheet[k].ID) # id

\* C4: a call whose read succeeds and whose identifier equals, as a string,
\* the ID of no record ends in the same step with NotFound, has issued the
\* read and no update_cell, and leaves the sheet unchanged.
C4_NotFound ==
    [][\A p \in Kiosks :
          (/\ pc[p] = "idle"
           /\ pc'[p] # "idle"
           /\ log'[p][1].ok
           /\ NoRecordWithId(qr'[p])) =>
              /\ pc'[p] = "done"
              /\ outcome'[p] = Outcome("NotFound", "", "", "", "")
              /\ log'[p] = <<ReadCall(TRUE)>>
              /\ sheet' = sheet]_vars

C4_Witness ==
    \E p \in Kiosks :
        /\ pc[p] = "done"
        /\ AllCallsOk(p)
        /\ NoRecordWithId(qr[p])
        /\ outcome[p].kind = "NotFound"
        /\ \E k \in 1..Len(sheet) : sheet[k].ExitStatus = "Exited"

\* The number of successful update_cell calls of the kiosk's current call.
OkWrites(p) == Len(SelectSeq(log[p], LAMBDA e : e.op = "update_cell" /\ e.ok))

\* C5: a call in which a store call failed reports StoreError, issued no
\* store call after the failed one, and wrote either both cells of the
\* transition or neither.
C5_NoPartialTransition ==
    \A p \in Kiosks :
        (pc[p] = "done" /\ ~AllCallsOk(p)) =>
            /\ outcome[p] = StoreError
            /\ \A n \in 1..(Len(log[p]) - 1) : log[p][n].ok
            /\ OkWrites(p) \in {0, 2}

\* C6: under concurrent scans and failing store calls alike, a status cell
\* that is set keeps its value, the status cells hold only "", "Entered"
\* and "Exited", and ExitStatus = "Exited" implies EntryStatus = "Entered".
C6_ForwardOnly ==
    /\ [](\A k \in 1..Len(sheet) :
            /\ sheet[k].EntryStatus \in {"", "Entered"}
            /\ sheet[k].ExitStatus \in {"", "Exited"}
            /\ sheet[k].ExitStatus = "Exited" => sheet[k].EntryStatus = "Entered")
    /\ [][\A k \in 1..Len(sheet) :
            /\ sheet[k].EntryStatus # "" => sheet'[k].EntryStatus = sheet[k].EntryStatus
            /\ sheet[k].ExitStatus # "" => sheet'[k].ExitStatus = sheet[k].ExitStatus]_vars

C6_Witness ==
    \E k \in 1..Len(sheet) : \E p, q \in Kiosks :
        /\ sheet[k].EntryStatus = "Entered"
        /\ sheet[k].ExitStatus = "Exited"
        /\ sheet[k].EntryTime = ""
        /\ pc[p] = "done" /\ outcome[p] = StoreError /\ i[p] = k + 1
        /\ pc[q] = "w_time" /\ i[q] = k + 1

\* C7: whenever no call is in progress a time cell is non-empty exactly
\* when its status cell is set, and a non-empty time cell is never changed.
C7_TimesSetOnce ==
    /\ [](NoCallInProgress =>
            \A k \in 1..Len(sheet) :
                /\ (sheet[k].EntryTime # "") <=> (sheet[k].EntryStatus # "")
                /\ (sheet[k].ExitTime # "") <=> (sheet[k].ExitStatus # ""))
    /\ [][\A k \in 1..Len(sheet) :
            /\ sheet[k].EntryTime # "" => sheet'[k].EntryTime = sheet[k].EntryTime
            /\ sheet[k].ExitTime # "" => sheet'[k].ExitTime = sheet[k].ExitTime]_vars

\* C8: a call issues one get_all_records, as its first store call; a call
\* that reports EntryMarked or ExitMarked has issued exactly two
\* update_cell calls, the status column and then the time column of one
\* row; a call that reports NotFound or AlreadyProcessed has issued none.
C8_StoreCalls ==
    \A p \in Kiosks :
        /\ pc[p] # "idle" =>
              /\ Len(log[p]) >= 1
              /\ \A n \in 1..Len(log[p]) : (log[p][n].op = "get_all_records") <=> (n = 1)
        /\ (pc[p] = "done" /\ outcome[p].kind = "EntryMarked") =>
              \E r \in 2..(Len(sheet) + 1) :
                  Writes(p) = <<WriteCall(r, 4, TRUE), WriteCall(r, 5, TRUE)>>
        /\ (pc[p] = "done" /\ outcome[p].kind = "ExitMarked") =>
              \E r \in 2..(Len(sheet) + 1) :
                  Writes(p) = <<WriteCall(r, 6, TRUE), WriteCall(r, 7, TRUE)>>
        /\ (pc[p] = "done" /\ outcome[p].kind \in {"NotFound", "AlreadyProcessed"}) =>
              Writes(p) = <<>>

C8_Witness ==
    \E p, q \in Kiosks :
        /\ pc[p] = "done" /\ outcome[p].kind = "ExitMarked" /\ Len(log[p]) = 3
        /\ pc[q] = "done" /\ outcome[q].kind = "AlreadyProcessed" /\ Len(log[q]) = 1

\* Kiosks p and q have both finished a call that reported EntryMarked for
\* record k.
BothMarkedEntry(p, q, k) ==
    /\ p # q
    /\ pc[p] = "done" /\ outcome[p].kind = "EntryMarked" /\ i[p] = k + 1
    /\ pc[q] = "done" /\ outcome[q].kind = "EntryMarked" /\ i[q] = k + 1

\* C9: when two concurrent calls have both reported EntryMarked for one
\* record, both had read it as Unprocessed, the record is Entered and not
\* Completed after the two scans, and its EntryTime is the timestamp of one
\* of the two; each call's time write replaces whatever EntryTime is there.
C9_LostUpdate ==
    /\ [](\A p, q \in Kiosks : \A k \in 1..Len(sheet) :
            BothMarkedEntry(p, q, k) =>
                /\ row[p].EntryStatus = "" /\ row[q].EntryStatus = ""
                /\ sheet[k].EntryStatus = "Entered"
                /\ sheet[k].ExitStatus = ""
                /\ sheet[k].EntryTime \in {now[p], now[q]})
    /\ [][\A p \in Kiosks :
            (pc[p] = "w_time" /\ pc'[p] = "done" /\ outcome'[p].kind = "EntryMarked") =>
                sheet'[i[p] - 1].EntryTime = now[p]]_vars

C9_Witness ==
    \E p, q \in Kiosks : \E k \in 1..Len(sheet) :
        /\ BothMarkedEntry(p, q, k)
        /\ now[p] = Strftime(0)
        /\ now[q] = Strftime(1)
        /\ sheet[k].EntryTime = Strftime(1)
        /\ sheet[k].ExitStatus = ""

\* C10: the number of records and every ID, Name and Branch cell never
\* change; a record changes only in a step of a call whose identifier it is
\* the first record in store order to match (sheet row = index + 1 counting
\* records from 1), and only in the status/time pair of that call's branch.
C10_FirstMatchOnly ==
    [][/\ Len(sheet') = Len(sheet)
       /\ \A k \in 1..Len(sheet) :
            /\ sheet'[k].ID = sheet[k].ID
            /\ sheet'[k].Name = sheet[k].Name
            /\ sheet'[k].Branch = sheet[k].Branch
            /\ sheet'[k] # sheet[k] =>
                  \E p \in Kiosks :
                      /\ pc[p] \in {"w_status", "w_time"}
                      /\ pc'[p] # pc[p]
                      /\ IsFirstWithId(k, qr[p])
                      /\ i[p] = k + 1
                      /\ IF row[p].EntryStatus = ""
                         THEN /\ sheet'[k].ExitStatus = sheet[k].ExitStatus
                              /\ sheet'[k].ExitTime = sheet[k].ExitTime
                         ELSE /\ sheet'[k].EntryStatus = sheet[k].EntryStatus
                              /\ sheet'[k].EntryTime = sheet[k].EntryTime]_vars

C10_Witness ==
    \E p \in Kiosks : \E k, m \in 1..Len(sheet) :
        /\ k < m
        /\ Str(sheet[k].ID) = Str(sheet[m].ID)
        /\ sheet[k].ID # sheet[m].ID
        /\ pc[p] = "done" /\ outcome[p].kind = "ExitMarked" /\ qr[p] = Str(sheet[m].ID)
        /\ sheet[k].ExitStatus = "Exited"
        /\ sheet[m] = NewRecord(Roster(m))

\* The identifier is the str of a text that strip() leaves empty.
EmptyAfterTrim(id) == \E t \in Texts : Join(t) = id /\ Strip(t) = <<>>

\* C11: process_student_scan runs only with an identifier that is non-empty
\* after trimming, from the text box and from a decoded image alike; for an
\* identifier that is empty after trimming no store call is issued.
C11_NonEmptyAfterTrim ==
    \A p \in Kiosks :
        EmptyAfterTrim(qr[p]) =>
            /\ pc[p] \in {"idle", "rejected"}
            /\ log[p] = <<>>

\* The second of the minute a timestamp string stands for.
SecondOf(ts) == CHOOSE t \in 0..MaxClock : Strftime(t) = ts

\* C12: with a non-decreasing clock and calls interleaved step by step, a
\* record whose EntryTime and ExitTime are both non-empty has
\* EntryTime <= ExitTime.
C12_EntryBeforeExit ==
    \A k \in 1..Len(sheet) :
        (sheet[k].EntryTime # "" /\ sheet[k].ExitTime # "") =>
            SecondOf(sheet[k].EntryTime) <= SecondOf(sheet[k].ExitTime)

TypeOK ==
    /\ Len(sheet) = MaxRows
    /\ clock \in 0..MaxClock
    /\ \A p \in Kiosks :
          /\ pc[p] \in {"idle", "rejected", "matched", "w_status", "w_time", "done"}
          /\ qr[p] \in Identifiers \cup {Join(t) : t \in Texts}
          /\ i[p] \in 0..(MaxRows + 1)
====
